---- MODULE Spec2Model ----
(***************************************************************************)
(* SlackWebhookHook (airflow/providers/slack/hooks/slack_webhook.py).      *)
(*                                                                         *)
(* One hook object is constructed (__init__, which resolves the webhook    *)
(* token through _get_token) and then execute() is called on it some       *)
(* number of times.  The two collaborators the hook inherits from HttpHook *)
(* (get_connection, the credential resolver, and run, the HTTP client) are *)
(* observed through the logs  lookups  and  posts.                         *)
(*                                                                         *)
(* Python values are tagged records, so that None, "", [], False and 0 are *)
(* different values that are all falsy, as in the source's  if x:  tests.  *)
(***************************************************************************)
EXTENDS Integers, Sequences, FiniteSets, TLC

VARIABLES
    pc,        \* "new" | "constructed" | "failed" (construction raised)
    args,      \* the arguments __init__ was called with (NoArgs before)
    hook,      \* the object's attributes (NoHook until constructed)
    raised,    \* the exception the last call raised to the caller, or "none"
    lookups,   \* connection ids handed to get_connection, in order
    warnings,  \* warnings emitted through warnings.warn, in order
    posts,     \* requests handed to HttpHook.run, in order
    run_raised,\* what each of those calls of HttpHook.run raised, or "none"
    calls      \* the methods entered, in order

vars == <<pc, args, hook, raised, lookups, warnings, posts, run_raised, calls>>

----------------------------------------------------------------------------
(* Bounds *)

\* execute() calls made on the one hook
MaxExecutes == 2
\* longest attachments / blocks list
MaxItems == 1

----------------------------------------------------------------------------
(* Python values *)

None == [type |-> "NoneType"]
Str(s) == [type |-> "str", s |-> s]
Bool(b) == [type |-> "bool", b |-> b]
PyInt(n) == [type |-> "int", n |-> n]
List(l) == [type |-> "list", items |-> l]
\* a dict is its (key, value) pairs in insertion order
Dict(kvs) == [type |-> "dict", items |-> kvs]

\* bool(v), the test behind  if v:
Truthy(v) ==
    CASE v.type = "NoneType" -> FALSE
      [] v.type = "bool" -> v.b
      [] v.type = "int" -> v.n # 0
      [] v.type = "str" -> v.s # ""
      [] v.type = "list" -> v.items # <<>>
      [] v.type = "dict" -> v.items # <<>>

DictKeys(d) == {d.items[i][1] : i \in DOMAIN d.items}

\* d.get(k, default)
DictGet(d, k, default) ==
    IF k \in DictKeys(d)
    THEN d.items[CHOOSE i \in DOMAIN d.items : d.items[i][1] = k][2]
    ELSE default

----------------------------------------------------------------------------
(* json.dumps: the JSON text, as its syntax tree *)

RECURSIVE json_dumps(_)
json_dumps(v) ==
    CASE v.type = "NoneType" -> [json |-> "null"]
      [] v.type = "bool" -> [json |-> IF v.b THEN "true" ELSE "false"]
      [] v.type = "int" -> [json |-> "number", n |-> v.n]
      [] v.type = "str" -> [json |-> "string", s |-> v.s]
      [] v.type = "list" ->
           [json |-> "array",
            elements |-> [i \in DOMAIN v.items |-> json_dumps(v.items[i])]]
      [] v.type = "dict" ->
           [json |-> "object",
            members |-> [i \in DOMAIN v.items |->
                           [name |-> v.items[i][1],
                            value |-> json_dumps(v.items[i][2])]]]

----------------------------------------------------------------------------
(* The credential resolver: BaseHook.get_connection *)

Conn(password, extra) == [password |-> password, extra_dejson |-> extra]

NoExtra == Dict(<<>>)
ExtraToken(s) == Dict(<< <<"webhook_token", Str(s)>> >>)

\* the stored connections: a missing, an empty and a set password, each with
\* no extra.webhook_token, an empty one and a set one
Connections ==
    [ conn_nopw_noextra |-> Conn(None, NoExtra),
      conn_nopw_emptyextra |-> Conn(None, ExtraToken("")),
      conn_nopw_extra |-> Conn(None, ExtraToken("X")),
      conn_emptypw_noextra |-> Conn(Str(""), NoExtra),
      conn_emptypw_emptyextra |-> Conn(Str(""), ExtraToken("")),
      conn_emptypw_extra |-> Conn(Str(""), ExtraToken("X")),
      conn_pw_noextra |-> Conn(Str("pw"), NoExtra),
      conn_pw_emptyextra |-> Conn(Str("pw"), ExtraToken("")),
      conn_pw_extra |-> Conn(Str("pw"), ExtraToken("X")) ]

ConnIds == DOMAIN Connections

\* a connection id that names no stored connection
UnknownConnId == "conn_missing"

get_connection(conn_id) ==
    IF conn_id \in ConnIds
    THEN [exc |-> "none", conn |-> Connections[conn_id]]
    ELSE [exc |-> "AirflowNotFoundException", conn |-> None]

----------------------------------------------------------------------------
(* The HTTP client: HttpHook.run *)

\* what the network does with one request
Responses == {"2xx", "non_2xx", "connection_error"}

\* one request is sent; a connection failure raises, and a non-2xx answer
\* raises when the caller asked for the response to be checked
run(endpoint, data, headers, extra_options, response) ==
    [request |-> [method |-> "POST", endpoint |-> endpoint, data |-> data,
                  headers |-> headers, extra_options |-> extra_options],
     exc |-> IF response = "connection_error" THEN "TransportError"
             ELSE IF response = "non_2xx" /\ extra_options.check_response
                  THEN "HttpStatusError"
                  ELSE "none"]

----------------------------------------------------------------------------
(* SlackWebhookHook._get_token *)

DeprecationMessage ==
    "'webhook_token' in 'extra' is deprecated. Please use 'password' field"

\* The outcome of _get_token and of its branches: the exception raised or
\* the value returned, with the lookups made and the warnings emitted.
Returns(value, looked, warned) ==
    [exc |-> "none", value |-> value, lookups |-> looked, warnings |-> warned]
Raises(exc, looked) ==
    [exc |-> exc, value |-> None, lookups |-> looked, warnings |-> <<>>]

\* a slip: extra.webhook_token is preferred to the password
token_from_conn_extra_first(http_conn_id) ==
    LET c == get_connection(http_conn_id.s)
        looked == <<http_conn_id.s>>
    IN  IF c.exc # "none"
        THEN Raises(c.exc, looked)
        ELSE LET web_token ==
                     DictGet(c.conn.extra_dejson, "webhook_token", Str(""))
             IN  IF Truthy(web_token)
                 THEN Returns(web_token, looked, <<DeprecationMessage>>)
                 ELSE Returns(c.conn.password, looked, <<>>)

\* a slip: the deprecated field is used without the warning
token_from_conn_silent(http_conn_id) ==
    LET c == get_connection(http_conn_id.s)
        looked == <<http_conn_id.s>>
    IN  IF c.exc # "none"
        THEN Raises(c.exc, looked)
        ELSE IF Truthy(c.conn.password)
        THEN Returns(c.conn.password, looked, <<>>)
        ELSE Returns(DictGet(c.conn.extra_dejson, "webhook_token", Str("")),
                     looked, <<>>)

\* the  elif http_conn_id:  branch
token_from_conn(http_conn_id) ==
    LET c == get_connection(http_conn_id.s)
        looked == <<http_conn_id.s>>
    IN  IF c.exc # "none"
        THEN Raises(c.exc, looked)
        ELSE IF Truthy(c.conn.password)
        THEN Returns(c.conn.password, looked, <<>>)
        ELSE LET web_token ==
                     DictGet(c.conn.extra_dejson, "webhook_token", Str(""))
             IN  Returns(web_token, looked,
                         IF Truthy(web_token)
                         THEN <<DeprecationMessage>>
                         ELSE <<>>)

\* a slip: the connection is preferred to the explicit token
_get_token_conn_first(token, http_conn_id) ==
    IF Truthy(http_conn_id)
    THEN token_from_conn(http_conn_id)
    ELSE IF Truthy(token)
    THEN Returns(token, <<>>, <<>>)
    ELSE Raises("AirflowException", <<>>)

\* a slip: without a conn_id the class's default_conn_name is looked up
_get_token_default_conn(token, http_conn_id) ==
    IF Truthy(token)
    THEN Returns(token, <<>>, <<>>)
    ELSE IF Truthy(http_conn_id)
    THEN token_from_conn(http_conn_id)
    ELSE token_from_conn(Str("slack_default"))

_get_token(token, http_conn_id) ==
    IF Truthy(token)
    THEN Returns(token, <<>>, <<>>)
    ELSE IF Truthy(http_conn_id)
    THEN token_from_conn(http_conn_id)
    ELSE Raises("AirflowException", <<>>)

----------------------------------------------------------------------------
(* SlackWebhookHook._build_slack_message *)

\* a slip: the test is  if test is not None:
SetIfNotNone(test, key, value) ==
    IF test # None THEN << <<key, value>> >> ELSE <<>>

\* the entries  if test: cmd[key] = value  adds to cmd (key is not in cmd yet)
SetIf(test, key, value) ==
    IF Truthy(test) THEN << <<key, value>> >> ELSE <<>>

_build_slack_message(self) ==
    LET cmd == Dict(SetIf(self.channel, "channel", self.channel)
                    \o SetIf(self.username, "username", self.username)
                    \o SetIf(self.icon_emoji, "icon_emoji", self.icon_emoji)
                    \o SetIf(self.icon_url, "icon_url", self.icon_url)
                    \o SetIf(self.link_names, "link_names", PyInt(1))
                    \o SetIf(self.attachments, "attachments", self.attachments)
                    \o SetIf(self.blocks, "blocks", self.blocks)
                    \o << <<"text", self.message>> >>)
    IN  json_dumps(cmd)

----------------------------------------------------------------------------
(* SlackWebhookHook.execute *)

\* a slip: the proxy is configured for both schemes
proxies_both(self) ==
    IF Truthy(self.proxy)
    THEN Dict(<< <<"http", self.proxy>>, <<"https", self.proxy>> >>)
    ELSE Dict(<<>>)

\* the proxies mapping execute() computes
proxies(self) ==
    IF Truthy(self.proxy)
    THEN Dict(<< <<"https", self.proxy>> >>)
    ELSE Dict(<<>>)

headers == Dict(<< <<"Content-type", Str("application/json")>> >>)

\* a slip: the response is not checked
extra_options_unchecked(self) ==
    [proxies |-> proxies(self), check_response |-> FALSE]

extra_options(self) ==
    [proxies |-> proxies(self), check_response |-> TRUE]

\* a slip: a failed send is tried once more
execute_retry ==
    /\ pc = "constructed"
    /\ Len(posts) < MaxExecutes
    /\ \E response \in Responses, second \in Responses :
         LET slack_message == _build_slack_message(hook)
             r == run(hook.webhook_token, slack_message, headers,
                      extra_options(hook), response)
             r2 == run(hook.webhook_token, slack_message, headers,
                       extra_options(hook), second)
         IN  IF r.exc = "none"
             THEN /\ posts' = Append(posts, r.request)
                  /\ run_raised' = Append(run_raised, r.exc)
                  /\ raised' = r.exc
             ELSE /\ posts' = posts \o <<r.request, r2.request>>
                  /\ run_raised' = run_raised \o <<r.exc, r2.exc>>
                  /\ raised' = r2.exc
    /\ calls' = calls \o <<"execute", "_build_slack_message", "run">>
    /\ UNCHANGED <<pc, args, hook, lookups, warnings>>

\* a slip: the attachments are consumed by the send
execute_consuming ==
    /\ pc = "constructed"
    /\ Len(posts) < MaxExecutes
    /\ \E response \in Responses :
         LET slack_message == _build_slack_message(hook)
             r == run(hook.webhook_token, slack_message, headers,
                      extra_options(hook), response)
         IN  /\ posts' = Append(posts, r.request)
             /\ run_raised' = Append(run_raised, r.exc)
             /\ raised' = r.exc
    /\ hook' = [hook EXCEPT !.attachments = None]
    /\ calls' = calls \o <<"execute", "_build_slack_message", "run">>
    /\ UNCHANGED <<pc, args, lookups, warnings>>

execute ==
    /\ pc = "constructed"
    /\ Len(posts) < MaxExecutes
    /\ \E response \in Responses :
         LET slack_message == _build_slack_message(hook)
             r == run(hook.webhook_token, slack_message, headers,
                      extra_options(hook), response)
         IN  /\ posts' = Append(posts, r.request)
             /\ run_raised' = Append(run_raised, r.exc)
             /\ raised' = r.exc
    /\ calls' = calls \o <<"execute", "_build_slack_message", "run">>
    /\ UNCHANGED <<pc, args, hook, lookups, warnings>>

----------------------------------------------------------------------------
(* SlackWebhookHook.__init__ *)

NoArgs == [type |-> "NoArgs"]
NoHook == [type |-> "NoHook"]

__init__(a) ==
    /\ pc = "new"
    /\ args' = a
    /\ LET t == _get_token(a.webhook_token, a.http_conn_id)
       IN  /\ lookups' = t.lookups
           /\ warnings' = t.warnings
           /\ raised' = t.exc
           /\ IF t.exc = "none"
              THEN /\ pc' = "constructed"
                   /\ hook' = [http_conn_id |-> a.http_conn_id,
                               webhook_token |-> t.value,
                               message |-> a.message,
                               attachments |-> a.attachments,
                               blocks |-> a.blocks,
                               channel |-> a.channel,
                               username |-> a.username,
                               icon_emoji |-> a.icon_emoji,
                               icon_url |-> a.icon_url,
                               link_names |-> a.link_names,
                               proxy |-> a.proxy]
              ELSE /\ pc' = "failed"
                   /\ hook' = hook
    /\ calls' = calls \o <<"__init__", "_get_token">>
    /\ UNCHANGED <<posts, run_raised>>

----------------------------------------------------------------------------
(* The constructor arguments the caller may pass *)

OptStr(s) == {None, Str(""), Str(s)}

\* an opaque attachment or block
Item == Dict(<< <<"a", PyInt(1)>> >>)

OptList ==
    {None} \cup {List([i \in 1..n |-> Item]) : n \in 0..MaxItems}

\* an unset or empty proxy, and proxies of either scheme
ProxyArgs == OptStr("http://p:8080") \cup {Str("https://p:8443")}

TokenArgs ==
    [webhook_token : OptStr("T0"),
     http_conn_id : {None, Str(""), Str(UnknownConnId)}
                    \cup {Str(c) : c \in ConnIds}]

FieldArgs ==
    [message : {Str(""), Str("hello")},
     attachments : OptList,
     blocks : OptList,
     channel : OptStr("#general"),
     username : OptStr("bot"),
     icon_emoji : OptStr(":tada:"),
     icon_url : OptStr("http://i/x.png"),
     link_names : {Bool(FALSE), Bool(TRUE)},
     proxy : ProxyArgs]

\* the constructor's defaults, with an explicit token
DefaultTokenArgs == [webhook_token |-> Str("T0"), http_conn_id |-> None]

\* the fields of the end-to-end example (message, channel, link_names), and
\* a proxy
ExampleFieldArgs ==
    {f \in FieldArgs :
        /\ f.attachments = None /\ f.blocks = None
        /\ f.username = None /\ f.icon_emoji = None /\ f.icon_url = None
        /\ f.proxy \in {None, Str("http://p:8080")}}

Join(t, f) ==
    [webhook_token |-> t.webhook_token, http_conn_id |-> t.http_conn_id,
     message |-> f.message, attachments |-> f.attachments,
     blocks |-> f.blocks, channel |-> f.channel, username |-> f.username,
     icon_emoji |-> f.icon_emoji, icon_url |-> f.icon_url,
     link_names |-> f.link_names, proxy |-> f.proxy]

\* Token resolution, payload construction and the proxy mapping read
\* disjoint arguments: every token argument is tried with the example
\* fields, every payload field with the default token and no proxy, and
\* every proxy with the example fields.
Args ==
    {Join(t, f) : t \in TokenArgs, f \in ExampleFieldArgs}
    \cup {Join(DefaultTokenArgs, f) : f \in {g \in FieldArgs : g.proxy = None}}
    \cup {Join(DefaultTokenArgs, [f EXCEPT !.proxy = p]) :
             f \in ExampleFieldArgs, p \in ProxyArgs}

----------------------------------------------------------------------------
(* The state machine *)

Init ==
    /\ pc = "new"
    /\ args = NoArgs
    /\ hook = NoHook
    /\ raised = "none"
    /\ lookups = <<>>
    /\ warnings = <<>>
    /\ posts = <<>>
    /\ run_raised = <<>>
    /\ calls = <<>>

Next ==
    \/ \E a \in Args : __init__(a)
    \/ execute

Spec == Init /\ [][Next]_vars

----------------------------------------------------------------------------
(* Vocabulary of the properties *)

\* a set, non-empty string
NonEmptyStr(v) == v.type = "str" /\ v.s # ""

\* a list with at least one element
NonEmptyList(v) == v.type = "list" /\ v.items # <<>>

CountOf(seq, x) == Cardinality({i \in DOMAIN seq : seq[i] = x})

RECURSIVE Repeat(_, _)
Repeat(seq, n) == IF n = 0 THEN <<>> ELSE seq \o Repeat(seq, n - 1)

Constructed == <<"__init__", "_get_token">>
Executed == <<"execute", "_build_slack_message", "run">>

\* __init__ has been called without an explicit token
NoExplicitToken == args # NoArgs /\ ~NonEmptyStr(args.webhook_token)

\* __init__ has been called with the id of a stored connection
NamesConnection ==
    /\ args # NoArgs
    /\ args.http_conn_id.type = "str"
    /\ args.http_conn_id.s \in ConnIds

NamedConnection == Connections[args.http_conn_id.s]

\* the names of a JSON object's members
MemberNames(obj) == {obj.members[i].name : i \in DOMAIN obj.members}

\* the values a JSON object gives a name (one value unless the name repeats)
MemberValues(obj, name) ==
    {obj.members[i].value : i \in {j \in DOMAIN obj.members :
                                      obj.members[j].name = name}}

\* the keys the payload of a hook is to have
PayloadKeys(h) ==
    {"text"}
    \cup {k \in {"channel", "username", "icon_emoji", "icon_url"} :
            NonEmptyStr(h[k])}
    \cup {k \in {"attachments", "blocks"} : NonEmptyList(h[k])}
    \cup {k \in {"link_names"} : h.link_names = Bool(TRUE)}

\* the value the payload of a hook is to give a key
PayloadValue(h, k) ==
    CASE k = "text" -> [json |-> "string", s |-> h.message.s]
      [] k \in {"channel", "username", "icon_emoji", "icon_url"} ->
           [json |-> "string", s |-> h[k].s]
      [] k \in {"attachments", "blocks"} -> json_dumps(h[k])
      [] k = "link_names" -> [json |-> "number", n |-> 1]

\* JSON values that stand for nothing: null, "", 0, false, [] and {}
EmptyJson(j) ==
    \/ j.json \in {"null", "false"}
    \/ j.json = "string" /\ j.s = ""
    \/ j.json = "number" /\ j.n = 0
    \/ j.json = "array" /\ j.elements = <<>>
    \/ j.json = "object" /\ j.members = <<>>

----------------------------------------------------------------------------
(* Properties *)

\* C1: every POST handed to the HTTP client has a non-empty token as its
\* endpoint (a token that cannot be resolved stops the request at
\* construction, so it is never sent).
C1_TokenNonEmptyAtSend ==
    \A i \in DOMAIN posts : NonEmptyStr(posts[i].endpoint)

\* C2: a non-empty explicit token is the resolved token, whatever the
\* connection id is (absent, empty, a stored connection or an unknown one).
C2_ExplicitTokenWins ==
    (args # NoArgs /\ NonEmptyStr(args.webhook_token))
        => /\ pc = "constructed"
           /\ hook.webhook_token = args.webhook_token

C2_Witness ==
    /\ pc = "constructed"
    /\ NonEmptyStr(args.webhook_token)
    /\ args.http_conn_id = Str(UnknownConnId)

\* C3: without an explicit token, a connection with a non-empty password
\* resolves to that password whatever extra.webhook_token holds, and no
\* deprecation warning is emitted.
C3_PasswordWins ==
    (NoExplicitToken /\ NamesConnection /\ NonEmptyStr(NamedConnection.password))
        => /\ pc = "constructed"
           /\ hook.webhook_token = NamedConnection.password
           /\ warnings = <<>>

C3_Witness ==
    /\ pc = "constructed"
    /\ NoExplicitToken
    /\ args.http_conn_id = Str("conn_pw_extra")
    /\ hook.webhook_token = Str("pw")

\* C4: without an explicit token, a connection with an empty password and a
\* non-empty extra.webhook_token resolves to that token, the deprecation
\* warning is emitted exactly once, and construction succeeds.
C4_ExtraTokenWarnsOnce ==
    (/\ NoExplicitToken
     /\ NamesConnection
     /\ ~NonEmptyStr(NamedConnection.password)
     /\ NonEmptyStr(DictGet(NamedConnection.extra_dejson, "webhook_token", None)))
        => /\ pc = "constructed"
           /\ hook.webhook_token
                = DictGet(NamedConnection.extra_dejson, "webhook_token", None)
           /\ warnings = <<DeprecationMessage>>

C4_Witness ==
    /\ pc = "constructed"
    /\ NoExplicitToken
    /\ args.http_conn_id = Str("conn_emptypw_extra")
    /\ hook.webhook_token = Str("X")
    /\ Len(warnings) = 1

\* C5: with neither an explicit token nor a connection id, construction
\* fails with AirflowException, the credential resolver is not consulted and
\* nothing is ever posted.
C5_NothingSuppliedFails ==
    (NoExplicitToken /\ ~NonEmptyStr(args.http_conn_id))
        => /\ pc = "failed"
           /\ raised = "AirflowException"
           /\ lookups = <<>>
           /\ posts = <<>>

C5_Witness ==
    /\ pc = "failed"
    /\ args.webhook_token = Str("")
    /\ args.http_conn_id = None
    /\ raised = "AirflowException"

\* C6: the body of every POST is a JSON object with exactly the keys text,
\* each of channel / username / icon_emoji / icon_url whose field is a
\* non-empty string, attachments / blocks when the list is non-empty, and
\* link_names when link_names is true; each key once, with the field's value
\* (link_names with the number 1), and none but text with an empty value.
C6_PayloadKeys ==
    \A i \in DOMAIN posts :
        LET body == posts[i].data
        IN  /\ body.json = "object"
            /\ MemberNames(body) = PayloadKeys(hook)
            /\ Len(body.members) = Cardinality(PayloadKeys(hook))
            /\ \A k \in MemberNames(body) :
                  /\ MemberValues(body, k) = {PayloadValue(hook, k)}
                  /\ k # "text" => \A v \in MemberValues(body, k) : ~EmptyJson(v)

C6_Witness ==
    /\ posts # <<>>
    /\ MemberNames(posts[1].data) = {"text", "link_names", "attachments"}
    /\ hook.message = Str("")
    /\ hook.channel = Str("")
    /\ hook.username = None
    /\ hook.blocks = List(<<>>)

\* C7: the proxies of every POST have no http key: they are {https: proxy}
\* when the proxy is a non-empty string, of either scheme, and {} otherwise.
C7_HttpsProxyOnly ==
    \A i \in DOMAIN posts :
        LET sent == posts[i].extra_options.proxies
        IN  /\ "http" \notin DictKeys(sent)
            /\ sent.items = IF NonEmptyStr(hook.proxy)
                            THEN << <<"https", hook.proxy>> >>
                            ELSE <<>>

C7_Witness ==
    /\ posts # <<>>
    /\ hook.proxy = Str("http://p:8080")
    /\ DictKeys(posts[1].extra_options.proxies) = {"https"}

\* C8: the calls made are the construction with its token resolution and
\* then, for each execute(), one payload construction followed by one POST;
\* each POST has the resolved token as endpoint, the built payload as body,
\* the header Content-type: application/json and check_response true.
C8_OnePostPerExecute ==
    /\ pc = "new" => calls = <<>> /\ posts = <<>>
    /\ pc = "failed" => calls = Constructed /\ posts = <<>>
    /\ pc = "constructed" =>
         /\ calls = Constructed \o Repeat(Executed, Len(posts))
         /\ \A i \in DOMAIN posts :
               /\ posts[i].method = "POST"
               /\ posts[i].endpoint = hook.webhook_token
               /\ posts[i].data = _build_slack_message(hook)
               /\ posts[i].headers.items
                    = << <<"Content-type", Str("application/json")>> >>
               /\ posts[i].extra_options.check_response = TRUE

C8_Witness ==
    /\ Len(posts) = 2
    /\ CountOf(calls, "execute") = 2
    /\ hook.message = Str("hello")

\* C9: an unknown connection fails the construction with the resolver's
\* error and nothing is posted; each execute() makes exactly one POST and
\* fails with exactly what the HTTP client raised for it, or succeeds when
\* the client raised nothing.
C9_NoLocalRecovery ==
    /\ (NoExplicitToken /\ args.http_conn_id = Str(UnknownConnId))
          => /\ pc = "failed"
             /\ raised = "AirflowNotFoundException"
             /\ lookups = <<UnknownConnId>>
             /\ posts = <<>>
    /\ Len(run_raised) = Len(posts)
    /\ CountOf(calls, "execute") = Len(posts)
    /\ posts # <<>> => raised = run_raised[Len(run_raised)]

C9_Witness ==
    /\ Len(posts) = 2
    /\ run_raised = <<"TransportError", "HttpStatusError">>
    /\ raised = "HttpStatusError"

\* C10: execute() changes no attribute of the hook, whether the POST succeeds
\* or fails, and all the POSTs of one hook are identical.
C10_ExecuteKeepsFields ==
    /\ [][pc = "constructed" => hook' = hook]_vars
    /\ [](\A i, j \in DOMAIN posts : posts[i] = posts[j])

C10_Witness ==
    /\ Len(posts) = 2
    /\ run_raised = <<"HttpStatusError", "none">>
    /\ hook.attachments # None
    /\ hook.message = Str("hello")

====
